---- MODULE Spec2Model ----
(***************************************************************************)
(* Resolver registry and multi-strategy resolution pipeline of the         *)
(* standalone ResolveURL servers.                                          *)
(*                                                                         *)
(* Text values are sequences of one-character strings, so that Python's    *)
(* substring test (a in b), str.lower() and urlparse() are computed, not   *)
(* assumed.                                                                *)
(***************************************************************************)
EXTENDS Integers, Sequences, FiniteSets, TLC

VARIABLES registry, settings, host_cache, PLUGIN_DIRS, sys_path,
          pc, last, prev, url, result, cands, idx, tried, calls, yields, err, status,
          workers

vars == <<registry, settings, host_cache, PLUGIN_DIRS, sys_path,
          pc, last, prev, url, result, cands, idx, tried, calls, yields, err, status,
          workers>>

(***************************************************************************)
(* Bounds of the model.                                                    *)
(***************************************************************************)
MaxResolvers == 3

\* The longest urls list of a batch request.
MaxUrls == 2

\* The largest number of links in a scraped page.
MaxLinks == 3

\* The request threads of the web server that run scrape_supported at the
\* same time, and the links of a page such a thread scrapes.
MaxWorkers == 2
MaxWorkerLinks == 2

(***************************************************************************)
(* Python values.                                                          *)
(***************************************************************************)
\* None: no text value is a sequence holding a multi-character element.
None == <<"<None>">>

\* A truthy value that is not text (a JSON number such as 123).
NonText == <<"<int>">>

IsText(v) == v # None /\ v # NonText

\* bool(v) for None, text and the non-text value.
Truthy(v) == v # None /\ v # <<>>

\* The lower-case form of every upper-case letter.
LowerOf ==
    [A |-> "a", B |-> "b", C |-> "c", D |-> "d", E |-> "e", F |-> "f", G |-> "g",
     H |-> "h", I |-> "i", J |-> "j", K |-> "k", L |-> "l", M |-> "m", N |-> "n",
     O |-> "o", P |-> "p", Q |-> "q", R |-> "r", S |-> "s", T |-> "t", U |-> "u",
     V |-> "v", W |-> "w", X |-> "x", Y |-> "y", Z |-> "z"]

\* str.lower()
Lower(s) ==
    [i \in 1..Len(s) |-> IF s[i] \in DOMAIN LowerOf THEN LowerOf[s[i]] ELSE s[i]]

\* Python's  a in b  on text.
Contains(b, a) ==
    \E i \in 0..(Len(b) - Len(a)) : SubSeq(b, i + 1, i + Len(a)) = a

\* Python's  x in list.
InList(x, list) == \E i \in 1..Len(list) : list[i] = x

\* The first index of text t at or after position from, 0 when there is none.
Find(s, t, from) ==
    IF \E i \in from..(Len(s) - Len(t) + 1) : SubSeq(s, i, i + Len(t) - 1) = t
    THEN CHOOSE i \in from..(Len(s) - Len(t) + 1) :
            /\ SubSeq(s, i, i + Len(t) - 1) = t
            /\ \A j \in from..(i - 1) : SubSeq(s, j, j + Len(t) - 1) # t
    ELSE 0

(***************************************************************************)
(* Text constants used as inputs.                                          *)
(***************************************************************************)
Star == <<"*">>
ExampleCom == <<"e", "x", "a", "m", "p", "l", "e", ".", "c", "o", "m">>
WwwExampleCom == <<"w", "w", "w", ".", "e", "x", "a", "m", "p", "l", "e", ".", "c", "o", "m">>
MixedExampleCom == <<"E", "x", "a", "m", "p", "l", "e", ".", "C", "O", "M">>
OtherCom == <<"o", "t", "h", "e", "r", ".", "c", "o", "m">>
UpperOtherCom == <<"O", "t", "h", "e", "r", ".", "C", "O", "M">>
Ample == <<"a", "m", "p", "l", "e">>

\* The settings text values.
TrueText == <<"t", "r", "u", "e">>
FalseText == <<"f", "a", "l", "s", "e">>

(***************************************************************************)
(* The resolver plugins.  A plugin class has a name, its domains, what     *)
(* _get_priority() returns, isUniversal() and isPopup().                   *)
(***************************************************************************)
Plugin(n, d, p, u, pop) ==
    [name |-> n, domains |-> d, prio |-> p, universal |-> u, popup |-> pop]

\* The plugin classes in import order.
PluginPool ==
    << Plugin("ExampleCom", <<ExampleCom>>, 10, FALSE, FALSE),
       Plugin("Generic", <<Star>>, 10, TRUE, FALSE),
       Plugin("Captcha", <<UpperOtherCom>>, 5, FALSE, TRUE),
       Plugin("Multi", <<OtherCom, ExampleCom>>, 10, FALSE, FALSE),
       Plugin("Wild", <<Star>>, 1, FALSE, FALSE) >>

\* The increasing index sequences of length at most n over 1..m.
RECURSIVE Subsequences(_, _)
Subsequences(m, n) ==
    IF m = 0 \/ n = 0 THEN { <<>> }
    ELSE Subsequences(m - 1, n)
         \cup { Append(s, m) : s \in Subsequences(m - 1, n - 1) }

\* The registries: the subclasses of ResolveUrl, in import order.  An entry is
\* a class (cls, an index of PluginPool) with what the settings say of
\* _is_enabled() and the priority attribute relevant_resolvers writes (<<>>
\* while the class has none).
Registries ==
    { [i \in 1..Len(s) |-> [cls |-> s[i], enabled |-> en[i], priority |-> <<>>]] :
        s \in Subsequences(Len(PluginPool), MaxResolvers),
        en \in [1..MaxResolvers -> BOOLEAN] }

\* The class attributes of a registry entry.
name(r) == PluginPool[r.cls].name
domains(r) == PluginPool[r.cls].domains
isUniversal(r) == PluginPool[r.cls].universal
isPopup(r) == PluginPool[r.cls].popup
get_priority(r) == PluginPool[r.cls].prio
is_enabled(r) == r.enabled

(***************************************************************************)
(* standalone_common: the settings store.                                  *)
(***************************************************************************)
DefaultSettings ==
    [k \in {"allow_universal", "allow_popups", "auto_pick", "use_cache"} |-> TrueText]

\* The Python values True and False.
PyTrue == <<"<True>">>
PyFalse == <<"<False>">>

\* A conversion that writes booleans the way the settings file does.
str_AsSettingsFile(v) ==
    IF v = PyTrue THEN TrueText
    ELSE IF v = PyFalse THEN FalseText
    ELSE IF v = None THEN <<>>
    ELSE v

\* str(value) for text, booleans and None.
str(v) ==
    IF v = PyTrue THEN <<"T", "r", "u", "e">>
    ELSE IF v = PyFalse THEN <<"F", "a", "l", "s", "e">>
    ELSE IF v = None THEN <<"N", "o", "n", "e">>
    ELSE v

\* A get_setting that answers with the value the key had at import.
get_setting_Initial(key) ==
    IF key \in DOMAIN DefaultSettings THEN DefaultSettings[key] ELSE <<>>

get_setting(key) == IF key \in DOMAIN settings THEN settings[key] ELSE <<>>

(***************************************************************************)
(* relevant_resolvers                                                      *)
(***************************************************************************)
\* An optional flag: "None" (not given), "True" or "False".
OptFlags == {"None", "True", "False"}

\* include_universal / include_popups after the defaults are read.
EffectiveFlag(flag, key) ==
    IF flag = "None" THEN get_setting(key) = TrueText ELSE flag = "True"

\* The policy conditions with the popup test left out.
PolicyOk_NoPopupTest(r, include_universal, include_popups, include_disabled) ==
    /\ include_disabled \/ is_enabled(r)
    /\ include_universal \/ ~isUniversal(r)

\* The policy conditions, passed only by a class that was never returned
\* before (one without the priority attribute).
PolicyOk_OncePerClass(r, include_universal, include_popups, include_disabled) ==
    /\ r.priority = <<>>
    /\ include_disabled \/ is_enabled(r)
    /\ include_universal \/ ~isUniversal(r)
    /\ include_popups \/ ~isPopup(r)

\* The policy conditions of the filter loop.
PolicyOk(r, include_universal, include_popups, include_disabled) ==
    /\ include_disabled \/ is_enabled(r)
    /\ include_universal \/ ~isUniversal(r)
    /\ include_popups \/ ~isPopup(r)

\* The domain condition without the  domain is None  alternative.
DomainMatch_NoneNotSkipped(domain, r) ==
    \/ /\ Truthy(domain)
       /\ domain # None
       /\ \E i \in 1..Len(domains(r)) : Contains(Lower(domains(r)[i]), domain)
    \/ InList(Star, domains(r))

\* The domain condition without the truth test of domain: the empty string
\* is a substring of every resolver domain.
DomainMatch_EmptyIsSubstring(domain, r) ==
    \/ domain = None
    \/ \E i \in 1..Len(domains(r)) : Contains(Lower(domains(r)[i]), domain)
    \/ InList(Star, domains(r))

\* A domain condition that every resolver passes.
DomainMatch_Always(domain, r) == TRUE

\* The domain condition of the filter loop; domain is already lower-cased.
DomainMatch(domain, r) ==
    \/ domain = None
    \/ /\ Truthy(domain)
       /\ \E i \in 1..Len(domains(r)) : Contains(Lower(domains(r)[i]), domain)
    \/ InList(Star, domains(r))

\* An insertion that puts x before the entries of equal priority.
RECURSIVE InsertByPriority_Unstable(_, _, _)
InsertByPriority_Unstable(prio, s, x) ==
    IF s = <<>> THEN <<x>>
    ELSE IF prio[s[Len(s)]] < prio[x] THEN Append(s, x)
    ELSE Append(InsertByPriority_Unstable(prio, SubSeq(s, 1, Len(s) - 1), x), s[Len(s)])

\* A stable sort by key (list.sort, sorted): the insertion of x into the
\* sorted list s, after the entries whose key is not greater.
RECURSIVE InsertByPriority(_, _, _)
InsertByPriority(prio, s, x) ==
    IF s = <<>> THEN <<x>>
    ELSE IF prio[s[Len(s)]] <= prio[x] THEN Append(s, x)
    ELSE Append(InsertByPriority(prio, SubSeq(s, 1, Len(s) - 1), x), s[Len(s)])

\* A sort that is not stable: it keeps equal keys in their order for a list
\* of even length and reverses them for a list of odd length.
RECURSIVE SortByPriority_ReversedTies(_, _)
SortByPriority_ReversedTies(prio, s) ==
    IF s = <<>> THEN <<>>
    ELSE InsertByPriority_Unstable(prio,
            SortByPriority_ReversedTies(prio, SubSeq(s, 1, Len(s) - 1)), s[Len(s)])

RECURSIVE SortByPriority_KeptTies(_, _)
SortByPriority_KeptTies(prio, s) ==
    IF s = <<>> THEN <<>>
    ELSE InsertByPriority(prio,
            SortByPriority_KeptTies(prio, SubSeq(s, 1, Len(s) - 1)), s[Len(s)])

SortByPriority_TiesByLength(prio, s) ==
    IF Len(s) % 2 = 0 THEN SortByPriority_KeptTies(prio, s)
    ELSE SortByPriority_ReversedTies(prio, s)

RECURSIVE SortByPriority(_, _)
SortByPriority(prio, s) ==
    IF s = <<>> THEN <<>>
    ELSE InsertByPriority(prio, SortByPriority(prio, SubSeq(s, 1, Len(s) - 1)), s[Len(s)])

\* The list relevant_resolvers returns, as indices into the registry.
relevant_resolvers(reg, domain, include_universal, include_popups, include_disabled, order_matters) ==
    LET dom == IF IsText(domain) THEN Lower(domain) ELSE domain
        iu == EffectiveFlag(include_universal, "allow_universal")
        ip == EffectiveFlag(include_popups, "allow_popups")
        Keep(k) == PolicyOk(reg[k], iu, ip, include_disabled) /\ DomainMatch(dom, reg[k])
        loop[k \in 1..(Len(reg) + 1)] ==
            IF k > Len(reg) THEN <<>>
            ELSE (IF Keep(k) THEN <<k>> ELSE <<>>) \o loop[k + 1]
        relevant == loop[1]
    IN  IF order_matters
        THEN SortByPriority([k \in 1..Len(reg) |-> get_priority(reg[k])], relevant)
        ELSE relevant

\* "Add attribute priority": every returned class gets priority = _get_priority().
WithPriorityAttribute(reg, relevant) ==
    [k \in 1..Len(reg) |->
        IF InList(k, relevant) THEN [reg[k] EXCEPT !.priority = <<get_priority(reg[k])>>]
        ELSE reg[k]]

\* load_external_plugins: every plugin directory is put at the front of sys.path.
RECURSIVE load_external_plugins(_, _)
load_external_plugins(path, dirs) ==
    IF dirs = <<>> THEN path
    ELSE load_external_plugins(<<dirs[1]>> \o path, Tail(dirs))

(***************************************************************************)
(* Inputs of the registry queries.                                         *)
(***************************************************************************)
QueryDomains == {None, <<>>, ExampleCom, WwwExampleCom, MixedExampleCom, OtherCom, Ample}

Idle == [op |-> "none"]

\* The request threads, and a thread that runs no call: the locals of
\* scrape_supported (the matches, the position in them, host_only, links,
\* is_valid) with the hosts the thread validated and the cache entries it
\* wrote.
Workers == 1..MaxWorkers

IdleWorker ==
    [pc |-> "idle", found |-> <<>>, k |-> 0, host_only |-> FALSE, links |-> <<>>,
     is_valid |-> FALSE, validated |-> <<>>, wrote |-> {}]

chainVars == <<url, result, cands, idx, tried, calls, yields, err, status>>

InitChainVars ==
    /\ url = None
    /\ result = None
    /\ cands = <<>>
    /\ idx = 0
    /\ tried = <<>>
    /\ calls = <<>>
    /\ yields = <<>>
    /\ err = FALSE
    /\ status = 0

Init ==
    /\ registry \in Registries
    /\ settings = DefaultSettings
    /\ host_cache = [h \in {} |-> TRUE]
    /\ PLUGIN_DIRS = <<>>
    /\ sys_path = <<>>
    /\ pc = "idle"
    /\ last = Idle
    /\ prev = Idle
    /\ workers = [w \in Workers |-> IdleWorker]
    /\ InitChainVars

\* A call of relevant_resolvers by a client of the module.
RelevantResolvers(domain, iu, ip, ie, id, om) ==
    /\ pc = "idle"
    /\ LET relevant == relevant_resolvers(registry, domain, iu, ip, id, om)
       IN  /\ registry' = WithPriorityAttribute(registry, relevant)
           /\ last' = [op |-> "relevant_resolvers", domain |-> domain,
                       include_universal |-> iu, include_popups |-> ip,
                       include_external |-> ie,
                       include_disabled |-> id, order_matters |-> om,
                       settings |-> settings, relevant |-> relevant]
    /\ sys_path' = IF ie THEN load_external_plugins(sys_path, PLUGIN_DIRS) ELSE sys_path
    /\ pc' = "returned"
    /\ UNCHANGED <<settings, host_cache, prev, workers, PLUGIN_DIRS, chainVars>>

\* set_setting(key, value) for a policy flag.
SetSetting(key, value) ==
    /\ pc = "idle"
    /\ settings' = [k \in DOMAIN settings \cup {key} |->
                        IF k = key THEN str(value) ELSE settings[k]]
    /\ last' = [op |-> "set_setting", key |-> key, value |-> value]
    /\ UNCHANGED <<registry, host_cache, prev, workers, PLUGIN_DIRS, sys_path, pc, chainVars>>

NextRegistry ==
    \/ \E domain \in QueryDomains, iu \in OptFlags, ip \in OptFlags,
          ie \in BOOLEAN, id \in BOOLEAN, om \in BOOLEAN :
            RelevantResolvers(domain, iu, ip, ie, id, om)
    \/ \E key \in {"allow_universal", "allow_popups"}, value \in {TrueText, FalseText} :
            SetSetting(key, value)

SpecRegistry == Init /\ [][NextRegistry]_vars

\* A client that stores values of several Python types in the settings and
\* queries the registry.
SettingKeys == {"allow_universal", "allow_popups", "ExampleCom_login"}
SettingValues == {TrueText, FalseText, PyTrue, PyFalse, None}

\* The caller goes on to its next call or request; keep says whether it
\* holds on to the answer it got.
NextRequest(keep) ==
    /\ pc = "returned"
    /\ pc' = "idle"
    /\ prev' = IF keep THEN last ELSE Idle
    /\ last' = Idle
    /\ status' = 0
    /\ UNCHANGED <<registry, settings, host_cache, workers, PLUGIN_DIRS, sys_path,
                   url, result, cands, idx, tried, calls, yields, err>>

\* A client that queries the registry again and again, and changes the
\* policy settings between its queries.
RequeryDomains == {None, ExampleCom}

RequeryFlags == {"None", "True"}

NextRequery ==
    \/ \E domain \in RequeryDomains, iu \in RequeryFlags, ip \in RequeryFlags :
            RelevantResolvers(domain, iu, ip, FALSE, FALSE, TRUE)
    \/ \E key \in {"allow_universal", "allow_popups"}, value \in {TrueText, FalseText} :
            SetSetting(key, value)
    \/ NextRequest(TRUE)

SpecRequery == Init /\ [][NextRequery]_vars

(***************************************************************************)
(* URLs, response headers and text patterns.                               *)
(***************************************************************************)
UrlSiteMp4 == <<"h", "t", "t", "p", "s", ":", "/", "/", "s", "i", "t", "e", ".", "t", "e", "s", "t", "/", "v", "i", "d", "e", "o", ".", "m", "p", "4">>
UrlExample == <<"h", "t", "t", "p", "s", ":", "/", "/", "e", "x", "a", "m", "p", "l", "e", ".", "c", "o", "m", "/", "v", "/", "1">>
UrlWwwMkv == <<"h", "t", "t", "p", ":", "/", "/", "W", "W", "W", ".", "E", "x", "a", "m", "p", "l", "e", ".", "c", "o", "m", "/", "c", "l", "i", "p", ".", "M", "K", "V">>
UrlEmbedMp4 == <<"h", "t", "t", "p", ":", "/", "/", "s", "i", "t", "e", ".", "t", "e", "s", "t", "/", "v", "i", "d", "e", "o", "/", "c", "l", "i", "p", ".", "m", "p", "4">>
UrlYoutu == <<"h", "t", "t", "p", "s", ":", "/", "/", "y", "o", "u", "t", "u", ".", "b", "e", "/", "a", "b", "c">>
UrlWmv == <<"h", "t", "t", "p", "s", ":", "/", "/", "s", "i", "t", "e", ".", "t", "e", "s", "t", "/", "c", "l", "i", "p", ".", "w", "m", "v">>
NotAUrl == <<"n", "o", "t", " ", "a", " ", "u", "r", "l">>
VideoMp4 == <<"v", "i", "d", "e", "o", "/", "m", "p", "4">>
UpperVideoMp4 == <<"V", "i", "d", "e", "o", "/", "M", "P", "4">>
TextHtml == <<"t", "e", "x", "t", "/", "h", "t", "m", "l">>
Video == <<"v", "i", "d", "e", "o">>

\* The extensions of the direct link check of resolve_url_complete.
CompleteExtensions == <<<<".", "m", "p", "4">>, <<".", "a", "v", "i">>, <<".", "m", "k", "v">>, <<".", "m", "o", "v">>, <<".", "w", "e", "b", "m">>>>

\* any(ext in url.lower() for ext in exts)
HasExtension(u, exts) == \E i \in 1..Len(exts) : Contains(Lower(u), exts[i])

\* The results of the plugins: the media URL the named source resolved.
MediaFrom(source) == <<"media", source>>

(***************************************************************************)
(* urllib.parse.urlparse(url).netloc                                       *)
(***************************************************************************)
Letters == DOMAIN LowerOf \cup { LowerOf[c] : c \in DOMAIN LowerOf }

SchemeChars == Letters \cup {"0", "1", "2", "3", "4", "5", "6", "7", "8", "9", "+", "-", "."}

\* The text after "scheme:", or all of it when it starts with no scheme.
AfterScheme(u) ==
    LET i == Find(u, <<":">>, 1)
    IN  IF i > 1 /\ u[1] \in Letters /\ \A j \in 1..(i - 1) : u[j] \in SchemeChars
        THEN SubSeq(u, i + 1, Len(u))
        ELSE u

\* The netloc of a text URL or of None (a value without text raises instead).
netloc(u) ==
    IF u = None THEN <<>>
    ELSE LET r == AfterScheme(u)
             ends == { k \in 3..Len(r) : r[k] \in {"/", "?", "#"} }
             delim == IF ends = {} THEN Len(r) + 1
                      ELSE CHOOSE k \in ends : \A m \in ends : k <= m
         IN  IF Len(r) >= 2 /\ SubSeq(r, 1, 2) = <<"/", "/">>
             THEN SubSeq(r, 3, delim - 1)
             ELSE <<>>

(***************************************************************************)
(* complete_server: the resolution chain.                                  *)
(***************************************************************************)
\* What resolveurl.resolve(url) can do: resolve, return False, or raise.
ResolveOutcomes == {"media", "false", "raise"}

\* resolve_url_with_resolveurl: the result, or None for False and for an error.
resolve_url_with_resolveurl(outcome) ==
    IF outcome = "media" THEN MediaFrom("hmf") ELSE None

\* get_all_resolvers: every resolver, or [] when the registry query raises.
get_all_resolvers(reg, raises) ==
    IF raises THEN <<>>
    ELSE relevant_resolvers(reg, None, "True", "True", TRUE, FALSE)

\* The domain filter of the manual search over all resolvers.
ManualFilter(reg, all, domain) ==
    LET Keep(k) ==
            \E i \in 1..Len(domains(reg[k])) :
                /\ Truthy(domain)
                /\ \/ Contains(Lower(domains(reg[k])[i]), domain)
                   \/ domains(reg[k])[i] = Star
        loop[n \in 1..(Len(all) + 1)] ==
            IF n > Len(all) THEN <<>>
            ELSE (IF Keep(all[n]) THEN <<all[n]>> ELSE <<>>) \o loop[n + 1]
    IN  loop[1]

\* How the registry can fail the manual search: not at all, in the query of
\* the relevant resolvers, or in that query and in get_all_resolvers.
RegistryFailures == {"none", "query", "both"}

\* The candidates of the manual search.
ManualCandidates(reg, u, fails) ==
    LET domain == Lower(netloc(u))
    IN  IF fails = "none"
        THEN relevant_resolvers(reg, domain, "True", "True", FALSE, TRUE)
        ELSE ManualFilter(reg, get_all_resolvers(reg, fails = "both"), domain)

\* The classes a (successful) registry query of the manual search returned,
\* which get the priority attribute.
ManualQueried(reg, u, fails) ==
    IF fails = "none" THEN ManualCandidates(reg, u, fails)
    ELSE get_all_resolvers(reg, fails = "both")

\* What trying one resolver can do: valid_url is false, get_host_and_id
\* gives no host or id, get_media_url gives nothing, one of them raises, or
\* get_media_url gives the media URL.
ManualOutcomes == {"invalid", "no_id", "empty", "raise", "media"}

\* A HEAD response: ok is false when the request raised (timeout, no route).
HeadResponses ==
    { [ok |-> TRUE, status |-> 200, ctype |-> VideoMp4],
      [ok |-> TRUE, status |-> 200, ctype |-> UpperVideoMp4],
      [ok |-> TRUE, status |-> 200, ctype |-> TextHtml],
      [ok |-> TRUE, status |-> 200, ctype |-> <<>>],
      [ok |-> TRUE, status |-> 404, ctype |-> VideoMp4],
      [ok |-> FALSE, status |-> 0, ctype |-> <<>>] }

\* The direct link check sends a HEAD request for this URL.
ProbeSends(u) == Truthy(u) /\ HasExtension(u, CompleteExtensions)

\* The result of the direct link check for a URL whose HEAD request was sent.
ProbeResult(u, head) ==
    IF head.ok /\ head.status = 200 /\ Contains(Lower(head.ctype), Video)
    THEN u
    ELSE None

\* "if result: return result" after the first and the second strategy.
ReturnsResult_Never(res) == FALSE

ReturnsResult(res) == Truthy(res)

\* The strategy that follows one that gave nothing.
StrategyAfter_SkipsManual(strategy) == "tier3"

StrategyAfter(strategy) == IF strategy = "tier1" THEN "tier2" ELSE "tier3"

\* The request bodies of /api/resolve: without a url field, or with a url.
ChainUrls == {UrlSiteMp4, UrlExample, UrlWwwMkv, NotAUrl, <<>>, None, NonText}

StartChain(u) ==
    /\ url' = u
    /\ result' = None
    /\ cands' = <<>>
    /\ idx' = 0
    /\ tried' = <<>>
    /\ calls' = <<>>
    /\ yields' = <<>>
    /\ err' = FALSE
    /\ status' = 0

\* api_resolve_url up to the call of resolve_url_complete.
ApiResolveUrl(has_url, u) ==
    /\ pc = "idle"
    /\ last' = [op |-> "api_resolve", has_url |-> has_url]
    /\ IF has_url
       THEN /\ StartChain(u)
            /\ pc' = "tier1"
       ELSE /\ status' = 400
            /\ pc' = "returned"
            /\ UNCHANGED <<url, result, cands, idx, tried, calls, yields, err>>
    /\ UNCHANGED <<registry, settings, host_cache, prev, workers, PLUGIN_DIRS, sys_path>>

\* resolve_url_complete: the main ResolveURL system.
Tier1(outcome) ==
    /\ pc = "tier1"
    /\ LET res == resolve_url_with_resolveurl(outcome)
       IN  /\ calls' = Append(calls, "tier1")
           /\ yields' = Append(yields, res)
           /\ err' = (err \/ outcome = "raise")
           /\ IF ReturnsResult(res)
              THEN result' = res /\ pc' = "done"
              ELSE result' = result /\ pc' = StrategyAfter("tier1")
    /\ UNCHANGED <<registry, settings, host_cache, prev, workers, PLUGIN_DIRS, sys_path,
                   last, url, cands, idx, tried, status>>

\* resolve_with_manual_resolver_search up to its loop.
ManualStart(fails) ==
    /\ pc = "tier2"
    /\ calls' = Append(calls, "tier2")
    /\ IF ~IsText(url) /\ url # None
       THEN \* urlparse raises; the outer handler returns None
            /\ yields' = Append(yields, None)
            /\ err' = TRUE
            /\ pc' = StrategyAfter("tier2")
            /\ UNCHANGED <<registry, sys_path, cands, idx>>
       ELSE /\ cands' = ManualCandidates(registry, url, fails)
            /\ registry' = WithPriorityAttribute(registry, ManualQueried(registry, url, fails))
            /\ sys_path' = load_external_plugins(sys_path, PLUGIN_DIRS)
            /\ idx' = 1
            /\ err' = (err \/ fails # "none")
            /\ pc' = "manual_loop"
            /\ UNCHANGED yields
    /\ UNCHANGED <<settings, host_cache, prev, workers, PLUGIN_DIRS, last, url, result, tried, status>>

\* One turn of a loop over the candidates without "Skip disabled resolvers".
ManualTry_NoSkip(outcome) ==
    /\ pc = "manual_loop"
    /\ idx <= Len(cands)
    /\ tried' = Append(tried, cands[idx])
    /\ IF outcome = "media"
       THEN LET res == MediaFrom(name(registry[cands[idx]]))
            IN  /\ yields' = Append(yields, res)
                /\ IF ReturnsResult(res)
                   THEN result' = res /\ pc' = "done"
                   ELSE result' = result /\ pc' = StrategyAfter("tier2")
                /\ UNCHANGED <<idx, err>>
       ELSE /\ idx' = idx + 1
            /\ err' = (err \/ outcome = "raise")
            /\ UNCHANGED <<yields, result, pc>>
    /\ UNCHANGED <<registry, settings, host_cache, prev, workers, PLUGIN_DIRS, sys_path,
                   last, url, cands, calls, status>>

\* One turn of the loop over the candidates.
ManualTry(outcome) ==
    /\ pc = "manual_loop"
    /\ idx <= Len(cands)
    /\ IF ~is_enabled(registry[cands[idx]])
       THEN \* "Skip disabled resolvers"
            /\ idx' = idx + 1
            /\ UNCHANGED <<tried, yields, err, result, pc>>
       ELSE /\ tried' = Append(tried, cands[idx])
            /\ IF outcome = "media"
               THEN LET res == MediaFrom(name(registry[cands[idx]]))
                    IN  /\ yields' = Append(yields, res)
                        /\ IF ReturnsResult(res)
                           THEN result' = res /\ pc' = "done"
                           ELSE result' = result /\ pc' = StrategyAfter("tier2")
                        /\ UNCHANGED <<idx, err>>
               ELSE /\ idx' = idx + 1
                    /\ err' = (err \/ outcome = "raise")
                    /\ UNCHANGED <<yields, result, pc>>
    /\ UNCHANGED <<registry, settings, host_cache, prev, workers, PLUGIN_DIRS, sys_path,
                   last, url, cands, calls, status>>

\* The loop is over: the manual search returns None.
ManualExhausted ==
    /\ pc = "manual_loop"
    /\ idx > Len(cands)
    /\ yields' = Append(yields, None)
    /\ pc' = StrategyAfter("tier2")
    /\ UNCHANGED <<registry, settings, host_cache, prev, workers, PLUGIN_DIRS, sys_path,
                   last, url, result, cands, idx, tried, calls, err, status>>

\* resolve_url_complete: the simple direct link check.
Tier3(head) ==
    /\ pc = "tier3"
    /\ IF ~IsText(url) /\ url # None
       THEN \* url.lower() raises AttributeError outside any try
            /\ calls' = Append(calls, "tier3")
            /\ pc' = "raised"
            /\ UNCHANGED <<yields, result, last>>
       ELSE IF ProbeSends(url)
       THEN /\ calls' = calls \o <<"tier3", "head">>
            /\ last' = [op |-> "head", head |-> head]
            /\ yields' = Append(yields, ProbeResult(url, head))
            /\ result' = ProbeResult(url, head)
            /\ pc' = "done"
       ELSE /\ calls' = Append(calls, "tier3")
            /\ yields' = Append(yields, None)
            /\ result' = None
            /\ pc' = "done"
            /\ UNCHANGED last
    /\ UNCHANGED <<registry, settings, host_cache, prev, workers, PLUGIN_DIRS, sys_path,
                   url, cands, idx, tried, err, status>>

\* api_resolve_url after resolve_url_complete returned or raised.
ApiRespond ==
    /\ pc \in {"done", "raised"}
    /\ status' = IF pc = "raised" THEN 500
                 ELSE IF Truthy(result) THEN 200 ELSE 404
    /\ pc' = "returned"
    /\ UNCHANGED <<registry, settings, host_cache, prev, workers, PLUGIN_DIRS, sys_path,
                   last, url, result, cands, idx, tried, calls, yields, err>>

(***************************************************************************)
(* web_server: /api/resolve.                                               *)
(***************************************************************************)
\* resolve_url of web_server: resolveurl.resolve answers, and the handler
\* maps a result to 200, no result to 404 and an exception to 500.
WebResolveUrl(has_url, u, outcome) ==
    /\ pc = "idle"
    /\ last' = [op |-> "web_resolve", has_url |-> has_url]
    /\ IF has_url
       THEN /\ url' = u
            /\ result' = (IF outcome = "media" THEN MediaFrom("hmf") ELSE None)
            /\ err' = (outcome = "raise")
            /\ status' = IF outcome = "raise" THEN 500
                         ELSE IF outcome = "media" THEN 200 ELSE 404
       ELSE /\ status' = 400
            /\ UNCHANGED <<url, result, err>>
    /\ pc' = "returned"
    /\ UNCHANGED <<registry, settings, host_cache, prev, workers, PLUGIN_DIRS, sys_path,
                   cands, idx, tried, calls, yields>>

(***************************************************************************)
(* resolveurl.resolve(web_url, return_all, subs)                           *)
(***************************************************************************)
\* The HostedMediaFile that is built when return_all is looked at first.
HostedMediaFile_ReturnAllFirst(web_url, return_all, subs) ==
    IF return_all THEN [url |-> web_url, return_all |-> TRUE, subs |-> FALSE]
    ELSE IF subs THEN [url |-> web_url, return_all |-> FALSE, subs |-> TRUE]
    ELSE [url |-> web_url, return_all |-> FALSE, subs |-> FALSE]

\* The HostedMediaFile resolve builds: the keyword arguments it passes, the
\* others at their default.
HostedMediaFile(web_url, return_all, subs) ==
    IF subs THEN [url |-> web_url, return_all |-> FALSE, subs |-> TRUE]
    ELSE IF return_all THEN [url |-> web_url, return_all |-> TRUE, subs |-> FALSE]
    ELSE [url |-> web_url, return_all |-> FALSE, subs |-> FALSE]

\* source.resolve(): for a page that holds media, the stream with its
\* subtitles, all streams, or the first stream; otherwise nothing.
SourceResolve(source, outcome) ==
    IF outcome # "media" THEN None
    ELSE IF source.subs THEN <<MediaFrom("hmf"), <<"subtitles">>>>
    ELSE IF source.return_all THEN <<MediaFrom("hmf"), MediaFrom("hmf2")>>
    ELSE MediaFrom("hmf")

\* resolve(web_url, return_all, subs)
resolve(web_url, return_all, subs, outcome) ==
    SourceResolve(HostedMediaFile(web_url, return_all, subs), outcome)

ResolveUrls == {UrlSiteMp4, UrlExample, NotAUrl}

\* A call of resolve by a client of the module.
Resolve(web_url, return_all, subs, outcome) ==
    /\ pc = "idle"
    /\ last' = [op |-> "resolve", web_url |-> web_url, return_all |-> return_all,
                subs |-> subs, outcome |-> outcome,
                raised |-> (outcome = "raise"),
                result |-> resolve(web_url, return_all, subs, outcome)]
    /\ pc' = "returned"
    /\ UNCHANGED <<registry, settings, host_cache, prev, workers, PLUGIN_DIRS, sys_path,
                   chainVars>>

NextResolve ==
    \/ \E web_url \in ResolveUrls, return_all \in BOOLEAN, subs \in BOOLEAN,
          outcome \in ResolveOutcomes :
            Resolve(web_url, return_all, subs, outcome)
    \/ NextRequest(TRUE)

SpecResolve == Init /\ [][NextResolve]_vars

(***************************************************************************)
(* functional_server: its own resolvers, find_resolver and resolve_url.    *)
(***************************************************************************)
\* RESOLVERS, in the order of the list.
RESOLVERS ==
    << [name |-> "DirectLink", priority |-> 200],
       [name |-> "GenericEmbed", priority |-> 150],
       [name |-> "YouTube", priority |-> 10] >>

video_extensions == <<<<".", "m", "p", "4">>, <<".", "a", "v", "i">>, <<".", "m", "k", "v">>, <<".", "m", "o", "v">>, <<".", "w", "m", "v">>, <<".", "f", "l", "v">>, <<".", "w", "e", "b", "m">>, <<".", "m", "4", "v">>>>

\* The extensions DirectLinkResolver.resolve accepts without a video type.
DirectExtensions == <<<<".", "m", "p", "4">>, <<".", "a", "v", "i">>, <<".", "m", "k", "v">>, <<".", "m", "o", "v">>>>

embed_patterns == <<<<"/", "e", "m", "b", "e", "d", "/">>, <<"/", "w", "a", "t", "c", "h", "?", "v", "=">>, <<"/", "v", "i", "d", "e", "o", "/">>, <<"/", "s", "t", "r", "e", "a", "m", "/">>, <<"/", "p", "l", "a", "y", "/">>>>

\* The alternatives of YouTubeResolver.pattern before the media id group.
YouTubePrefixes == <<<<"y", "o", "u", "t", "u", "b", "e", ".", "c", "o", "m", "/", "w", "a", "t", "c", "h", "?", "v", "=">>, <<"y", "o", "u", "t", "u", ".", "b", "e", "/">>>>

\* [a-zA-Z0-9_-] under re.I, on lower-cased text.
IdChars == Letters \cup {"0", "1", "2", "3", "4", "5", "6", "7", "8", "9", "_", "-"}

\* re.search(YouTubeResolver.pattern, url, re.I) is not None
YouTubeMatch(u) ==
    LET low == Lower(u)
    IN  \E p \in 1..Len(YouTubePrefixes), i \in 1..Len(low) :
            /\ i + Len(YouTubePrefixes[p]) <= Len(low)
            /\ SubSeq(low, i, i + Len(YouTubePrefixes[p]) - 1) = YouTubePrefixes[p]
            /\ low[i + Len(YouTubePrefixes[p])] \in IdChars

\* resolver.valid_url(url, host) of the three resolver classes.
valid_url(resolver, u) ==
    /\ Truthy(u)
    /\ IF resolver = "DirectLink" THEN HasExtension(u, video_extensions)
       ELSE IF resolver = "GenericEmbed" THEN HasExtension(u, embed_patterns)
       ELSE YouTubeMatch(u)

\* sorted(RESOLVERS, key=lambda x: x.priority), as indices of RESOLVERS.
sorted_resolvers ==
    SortByPriority([k \in 1..Len(RESOLVERS) |-> RESOLVERS[k].priority],
                   [k \in 1..Len(RESOLVERS) |-> k])

\* find_resolver: the first resolver, by priority, whose valid_url holds; 0
\* stands for None.
find_resolver(u) ==
    LET hits == { n \in 1..Len(sorted_resolvers) :
                    valid_url(RESOLVERS[sorted_resolvers[n]].name, u) }
    IN  IF hits = {} THEN 0
        ELSE sorted_resolvers[CHOOSE n \in hits : \A m \in hits : n <= m]

\* What the page GenericEmbedResolver fetches can give: a media URL in its
\* source, no media URL, or a failed request.
PageOutcomes == {"mp4", "nothing", "error"}

\* DirectLinkResolver.resolve
DirectLinkResolve(u, head) ==
    IF /\ head.ok
       /\ head.status = 200
       /\ \/ Contains(Lower(head.ctype), Video)
          \/ HasExtension(u, DirectExtensions)
    THEN u
    ELSE None

\* resolver.resolve(url) as resolve_url sees it: the result, with None for
\* no result and for an exception (YouTubeResolver's one-group pattern makes
\* BaseResolver.resolve raise when it unpacks host and media id).
ResolverResolve(resolver, u, head, page) ==
    IF resolver = "DirectLink" THEN DirectLinkResolve(u, head)
    ELSE IF resolver = "GenericEmbed"
    THEN (IF page = "mp4" THEN MediaFrom("GenericEmbed") ELSE None)
    ELSE None

\* resolver.resolve(url) ended with an exception that resolve_url caught.
ResolverRaised(resolver) == resolver = "YouTube"

FunctionalUrls ==
    {UrlSiteMp4, UrlEmbedMp4, UrlYoutu, UrlWmv, UrlWwwMkv, NotAUrl, <<>>, None, NonText}

NoResolver == [name |-> "none", priority |-> 0]

\* find_resolver and the valid_url answers for each text URL or None.
Found ==
    [u \in FunctionalUrls \ {NonText} |->
        [resolver |-> find_resolver(u),
         valid |-> { RESOLVERS[k].name : k \in
                       { n \in 1..Len(RESOLVERS) : valid_url(RESOLVERS[n].name, u) } }]]

\* api_resolve_url of functional_server, with resolve_url and find_resolver.
FunctionalResolveUrl(has_url, u) ==
    /\ pc = "idle"
    /\ IF ~has_url
       THEN /\ status' = 400
            /\ last' = [op |-> "functional_resolve", has_url |-> FALSE]
            /\ UNCHANGED <<url, result, err>>
       ELSE IF ~IsText(u) /\ u # None
       THEN \* urlparse raises in find_resolver; the handler answers 500
            /\ status' = 500
            /\ last' = [op |-> "functional_resolve", has_url |-> TRUE,
                        valid |-> {}, invoked |-> <<>>, probed |-> FALSE]
            /\ url' = u
            /\ result' = None
            /\ err' = TRUE
       ELSE LET found == Found[u].resolver
                resolver == IF found = 0 THEN NoResolver ELSE RESOLVERS[found]
                valid == Found[u].valid
            IN  \E head \in HeadResponses, page \in PageOutcomes :
                  LET res == IF found = 0 THEN None
                             ELSE ResolverResolve(resolver.name, u, head, page)
                  IN  /\ url' = u
                      /\ result' = res
                      /\ err' = (found # 0 /\ ResolverRaised(resolver.name))
                      /\ status' = IF Truthy(res) THEN 200 ELSE 404
                      /\ last' = [op |-> "functional_resolve", has_url |-> TRUE,
                                  valid |-> valid,
                                  invoked |-> IF found = 0 THEN <<>>
                                              ELSE <<resolver.name>>,
                                  probed |-> resolver.name = "DirectLink",
                                  head |-> IF resolver.name = "DirectLink" THEN head
                                           ELSE [ok |-> FALSE, status |-> 0,
                                                 ctype |-> <<>>]]
    /\ pc' = "returned"
    /\ UNCHANGED <<registry, settings, host_cache, prev, workers, PLUGIN_DIRS, sys_path,
                   cands, idx, tried, calls, yields>>

NextChain ==
    \/ \E has_url \in BOOLEAN, u \in ChainUrls : ApiResolveUrl(has_url, u)
    \/ \E outcome \in ResolveOutcomes : Tier1(outcome)
    \/ \E fails \in RegistryFailures : ManualStart(fails)
    \/ \E outcome \in ManualOutcomes : ManualTry(outcome)
    \/ ManualExhausted
    \/ \E head \in HeadResponses : Tier3(head)
    \/ ApiRespond
    \/ \E has_url \in BOOLEAN, u \in ChainUrls, outcome \in ResolveOutcomes :
            WebResolveUrl(has_url, u, outcome)
    \/ \E has_url \in BOOLEAN, u \in FunctionalUrls :
            FunctionalResolveUrl(has_url, u)

SpecChain == Init /\ [][NextChain]_vars

\* The places of a running resolve_url_complete call.
Running == {"tier1", "tier2", "manual_loop", "tier3"}

ChainPlaces == Running \cup {"done", "raised"}

\* A running call moves on: to another place, or to the next candidate of
\* the manual search.  Every step of a running call is such a move, and a
\* running call can always take one.
ChainAdvance ==
    /\ pc \in Running
    /\ pc' \in ChainPlaces
    /\ idx' \in 0..(MaxResolvers + 2)
    /\ <<pc', idx'>> # <<pc, idx>>

\* Every resolver invocation and every HEAD request returns, raises or times
\* out, so a running call does not stay where it is forever.
SpecChainFair == Init /\ [][NextChain]_vars /\ WF_<<pc, idx>>(ChainAdvance)

(***************************************************************************)
(* /api/resolve/multiple of the three servers.                             *)
(***************************************************************************)
Servers == {"complete", "web", "functional"}

BatchUrls == {UrlSiteMp4, UrlEmbedMp4, NonText}

\* The sequences over S of length at most n.
RECURSIVE SeqsUpTo(_, _)
SeqsUpTo(S, n) ==
    IF n = 0 THEN { <<>> }
    ELSE SeqsUpTo(S, n - 1)
         \cup { Append(l, x) : l \in { m \in SeqsUpTo(S, n - 1) : Len(m) = n - 1 }, x \in S }

\* The JSON bodies: no urls field (or no body), a urls value that is not a
\* list (an object whose one key is a URL), or a list of URLs.
BatchBodies ==
    { [kind |-> "no_field", urls |-> <<>>],
      [kind |-> "not_list", urls |-> <<UrlSiteMp4>>] }
    \cup { [kind |-> "list", urls |-> l] : l \in SeqsUpTo(BatchUrls, MaxUrls) }

\* "not data or 'urls' not in data" is false.
HasUrls(body) == body.kind # "no_field"

\* isinstance(urls, list), with any value taken for a list.
IsList_AnyValue(body) == TRUE

\* isinstance(urls, list)
IsList(body) == body.kind = "list"

\* What happens while one URL is resolved: what resolveurl.resolve does, what
\* the manual search finds, the HEAD response and the page fetched.
BatchRuns ==
    { [tier1 |-> "media", manual |-> "none", page |-> "nothing",
       head |-> [ok |-> FALSE, status |-> 0, ctype |-> <<>>]],
      [tier1 |-> "raise", manual |-> "media", page |-> "mp4",
       head |-> [ok |-> TRUE, status |-> 200, ctype |-> TextHtml]],
      [tier1 |-> "false", manual |-> "none", page |-> "error",
       head |-> [ok |-> TRUE, status |-> 200, ctype |-> VideoMp4]],
      [tier1 |-> "false", manual |-> "none", page |-> "nothing",
       head |-> [ok |-> FALSE, status |-> 0, ctype |-> <<>>]] }

Returns(res) == [raised |-> FALSE, result |-> res]

Raises == [raised |-> TRUE, result |-> None]

\* resolve_url_complete(url) as one call.
resolve_url_complete(u, run) ==
    LET first == resolve_url_with_resolveurl(run.tier1)
        second == IF (IsText(u) \/ u = None) /\ run.manual = "media"
                  THEN MediaFrom("manual") ELSE None
    IN  IF ReturnsResult(first) THEN Returns(first)
        ELSE IF ReturnsResult(second) THEN Returns(second)
        ELSE IF ~IsText(u) /\ u # None THEN Raises
        ELSE IF ProbeSends(u) THEN Returns(ProbeResult(u, run.head))
        ELSE Returns(None)

\* resolve_url(url) of functional_server as one call.
functional_resolve_url(u, run) ==
    IF ~IsText(u) /\ u # None THEN Raises
    ELSE IF Found[u].resolver = 0 THEN Returns(None)
    ELSE Returns(ResolverResolve(RESOLVERS[Found[u].resolver].name, u, run.head, run.page))

\* resolveurl.resolve(url, return_all=return_all, subs=subs) as one call.
web_resolve(u, run) ==
    IF run.tier1 = "raise" THEN Raises
    ELSE Returns(IF run.tier1 = "media" THEN MediaFrom("hmf") ELSE None)

\* The resolution of one URL of the batch by a server.
ResolveOne(server, u, run) ==
    IF server = "complete" THEN resolve_url_complete(u, run)
    ELSE IF server = "functional" THEN functional_resolve_url(u, run)
    ELSE web_resolve(u, run)

\* The entry appended for one URL: from the try branch or the except branch.
BatchEntry(u, out) ==
    [original_url |-> u,
     success |-> ~out.raised /\ Truthy(out.result),
     resolved_url |-> IF ~out.raised /\ Truthy(out.result) THEN out.result ELSE None,
     error |-> out.raised]

\* The loop over urls, when it is left at the first URL that raises.
BatchResults_StopsAtError(server, urls, runs) ==
    LET loop[k \in 1..(Len(urls) + 1)] ==
            IF k > Len(urls) THEN <<>>
            ELSE IF ResolveOne(server, urls[k], runs[k]).raised THEN <<>>
            ELSE <<BatchEntry(urls[k], ResolveOne(server, urls[k], runs[k]))>> \o loop[k + 1]
    IN  loop[1]

\* The loop over urls.
BatchResults(server, urls, runs) ==
    LET loop[k \in 1..(Len(urls) + 1)] ==
            IF k > Len(urls) THEN <<>>
            ELSE <<BatchEntry(urls[k], ResolveOne(server, urls[k], runs[k]))>> \o loop[k + 1]
    IN  loop[1]

\* sum(1 for r in results if r['success'])
Successful(results) == Cardinality({ i \in 1..Len(results) : results[i].success })

\* api_resolve_multiple / resolve_multiple
ResolveMultiple(server, body, runs) ==
    /\ pc = "idle"
    /\ IF ~HasUrls(body) \/ ~IsList(body)
       THEN /\ status' = 400
            /\ last' = [op |-> "resolve_multiple", server |-> server, body |-> body,
                        invoked |-> 0]
       ELSE LET results == BatchResults(server, body.urls, runs)
            IN  /\ status' = 200
                /\ last' = [op |-> "resolve_multiple", server |-> server, body |-> body,
                            runs |-> SubSeq(runs, 1, Len(body.urls)),
                            invoked |-> Len(results),
                            results |-> results,
                            total |-> Len(body.urls),
                            successful |-> Successful(results)]
    /\ pc' = "returned"
    /\ UNCHANGED <<registry, settings, host_cache, prev, workers, PLUGIN_DIRS, sys_path,
                   url, result, cands, idx, tried, calls, yields, err>>

\* A server with its plugins imported and enabled.
InitBatch ==
    /\ Init
    /\ Len(registry) = MaxResolvers
    /\ \A k \in 1..Len(registry) : is_enabled(registry[k])

NextBatch ==
    \/ \E server \in Servers, body \in BatchBodies, runs \in [1..MaxUrls -> BatchRuns] :
            ResolveMultiple(server, body, runs)
    \/ \E has_url \in BOOLEAN, u \in ChainUrls, outcome \in ResolveOutcomes :
            WebResolveUrl(has_url, u, outcome)

SpecBatch == InitBatch /\ [][NextBatch]_vars

(***************************************************************************)
(* A client that stores settings and queries the registry.                 *)
(***************************************************************************)
NextSettings ==
    \/ \E key \in SettingKeys, value \in SettingValues : SetSetting(key, value)
    \/ \E domain \in RequeryDomains, iu \in RequeryFlags, ip \in RequeryFlags :
            RelevantResolvers(domain, iu, ip, FALSE, FALSE, TRUE)
    \/ NextRequest(FALSE)

SpecSettings == InitBatch /\ [][NextSettings]_vars

(***************************************************************************)
(* scrape_supported and the host cache.                                    *)
(***************************************************************************)
LinkExampleAbout == <<"h", "t", "t", "p", "s", ":", "/", "/", "e", "x", "a", "m", "p", "l", "e", ".", "c", "o", "m", "/", "a", "b", "o", "u", "t">>
LinkOtherV == <<"h", "t", "t", "p", ":", "/", "/", "O", "t", "h", "e", "r", ".", "T", "E", "S", "T", ":", "8", "0", "/", "v", "/", "2">>
OtherTest == <<"o", "t", "h", "e", "r", ".", "t", "e", "s", "t">>
LinkRelative == <<"/", "v", "/", "3">>
MediaPath == <<"/", "v", "/">>
HrefWord == <<"h", "r", "e", "f">>

\* \s of the regular expression.
Whitespace == {" ", "\t", "\n", "\r"}

\* ['"] of the regular expression.
Quotes == {"'", "\""}

\* The links a page can hold.
Links == {UrlExample, LinkExampleAbout, LinkOtherV, LinkRelative}

\* HTML around a link, in two spellings of the attribute.
Anchor(l) == <<"<", "a", " ", "h", "r", "e", "f", "=", "\"">> \o l \o <<"\"", ">">>
AnchorSpaced(l) == <<"<", "a", " ", "i", "d", "=", "'", "x", "'", " ", "h", "r", "e", "f", " ", "=", " ", "'">> \o l \o <<"'", ">">>

\* The page that holds the links ls in this order.
Page(ls) ==
    LET piece[k \in 1..(Len(ls) + 1)] ==
            IF k > Len(ls) THEN <<>>
            ELSE (IF k % 2 = 1 THEN Anchor(ls[k]) ELSE AnchorSpaced(ls[k])) \o piece[k + 1]
    IN  piece[1]

Pages == { Page(ls) : ls \in SeqsUpTo(Links, MaxLinks) }

\* The first position at or after i that holds no whitespace.
SkipWhitespace(h, i) ==
    LET stops == { j \in i..(Len(h) + 1) : j > Len(h) \/ h[j] \notin Whitespace }
    IN  CHOOSE j \in stops : \A m \in stops : j <= m

\* A match of  href\s*=\s*['"]([^'"]+)  that starts at position i: whether
\* there is one, its group 1 and the position after it.
MatchAt(h, i) ==
    LET eq == SkipWhitespace(h, i + Len(HrefWord))
        quote == SkipWhitespace(h, eq + 1)
        ends == { j \in (quote + 1)..(Len(h) + 1) : j > Len(h) \/ h[j] \in Quotes }
        stop == CHOOSE j \in ends : \A m \in ends : j <= m
    IN  IF /\ i + Len(HrefWord) - 1 <= Len(h)
           /\ SubSeq(h, i, i + Len(HrefWord) - 1) = HrefWord
           /\ eq <= Len(h) /\ h[eq] = "="
           /\ quote <= Len(h) /\ h[quote] \in Quotes
           /\ stop > quote + 1
        THEN [ok |-> TRUE, group |-> SubSeq(h, quote + 1, stop - 1), end |-> stop]
        ELSE [ok |-> FALSE, group |-> <<>>, end |-> i + 1]

\* [match.group(1) for match in re.finditer(regex, html)] with the default regex
HrefLinks(h) ==
    LET scan[i \in 1..(Len(h) + 1)] ==
            IF i > Len(h) THEN <<>>
            ELSE IF MatchAt(h, i).ok
                 THEN <<MatchAt(h, i).group>> \o scan[MatchAt(h, i).end]
                 ELSE scan[i + 1]
    IN  scan[1]

\* The links of each page, by the default regex.
Extracted == [h \in Pages |-> HrefLinks(h)]

\* urlparse(stream_url).hostname: the netloc without its port, in lower
\* case; None when the URL has no netloc.
hostname(u) ==
    LET n == netloc(u)
        colon == Find(n, <<":">>, 1)
    IN  IF n = <<>> THEN None
        ELSE Lower(IF colon = 0 THEN n ELSE SubSeq(n, 1, colon - 1))

\* HostedMediaFile(host=host, media_id='dummy').valid_url(): some resolver
\* the registry gives for the host accepts it.
HostValid(reg, host) ==
    relevant_resolvers(reg, host, "None", "None", FALSE, TRUE) # <<>>

\* HostedMediaFile(url=stream_url).valid_url(): the URL also has the shape of
\* a media page.
UrlValid(reg, u) ==
    /\ Contains(u, MediaPath)
    /\ relevant_resolvers(reg, IF hostname(u) = None THEN <<>> ELSE hostname(u),
                          "None", "None", FALSE, TRUE) # <<>>

\* host_cache[host] = is_valid
CachePut(cache, host, is_valid) ==
    [h \in DOMAIN cache \cup {host} |-> IF h = host THEN is_valid ELSE cache[h]]

\* urlparse(stream_url).hostname of each link.
LinkHost == [l \in Links |-> hostname(l)]

\* One turn of a loop that keeps a link only once.
ScrapeLink_DropsRepeats(acc, reg, stream_url, host_only) ==
    LET host == LinkHost[stream_url]
    IN  IF InList(stream_url, acc.links) \/ (host_only /\ host = None) THEN acc
        ELSE IF host_only /\ host \in DOMAIN acc.cache
        THEN [cache |-> acc.cache,
              links |-> acc.links \o (IF acc.cache[host] THEN <<stream_url>> ELSE <<>>),
              validated |-> acc.validated]
        ELSE CHOOSE out \in
                { [cache |-> CachePut(acc.cache, host, is_valid),
                   links |-> acc.links \o (IF is_valid THEN <<stream_url>> ELSE <<>>),
                   validated |-> Append(acc.validated, host)] :
                  is_valid \in { IF host_only THEN HostValid(reg, host)
                                 ELSE UrlValid(reg, stream_url) } } : TRUE

\* One turn of the loop of scrape_supported: acc holds the cache, the links
\* kept so far and the hosts HostedMediaFile validated; is_valid is what
\* hmf.valid_url() answered.
ScrapeLink(acc, reg, stream_url, host_only) ==
    LET host == LinkHost[stream_url]
    IN  IF host_only /\ host = None THEN acc
        ELSE IF host_only /\ host \in DOMAIN acc.cache
        THEN [cache |-> acc.cache,
              links |-> acc.links \o (IF acc.cache[host] THEN <<stream_url>> ELSE <<>>),
              validated |-> acc.validated]
        ELSE CHOOSE out \in
                { [cache |-> CachePut(acc.cache, host, is_valid),
                   links |-> acc.links \o (IF is_valid THEN <<stream_url>> ELSE <<>>),
                   validated |-> Append(acc.validated, host)] :
                  is_valid \in { IF host_only THEN HostValid(reg, host)
                                 ELSE UrlValid(reg, stream_url) } } : TRUE

\* scrape_supported(html, regex=None, host_only): the loop over the matches,
\* each turn working on the value the turn before left.
scrape_supported(cache, reg, html, host_only) ==
    LET found == Extracted[html]
        loop[k \in 0..Len(found)] ==
            IF k = 0 THEN [cache |-> cache, links |-> <<>>, validated |-> <<>>]
            ELSE CHOOSE out \in { ScrapeLink(acc, reg, found[k], host_only) :
                                    acc \in {loop[k - 1]} } : TRUE
    IN  loop[Len(found)]

\* /api/scrape of web_server with the module's scrape_supported.
ScrapeSupported(has_html, html, host_only) ==
    /\ pc = "idle"
    /\ IF ~has_html
       THEN /\ status' = 400
            /\ last' = [op |-> "scrape_supported", has_html |-> FALSE]
            /\ UNCHANGED host_cache
       ELSE \E out \in { scrape_supported(host_cache, registry, html, host_only) } :
                /\ host_cache' = out.cache
                /\ status' = 200
                /\ last' = [op |-> "scrape_supported", has_html |-> TRUE,
                            html |-> html, host_only |-> host_only,
                            validated |-> out.validated,
                            supported_urls |-> out.links,
                            count |-> Len(out.links)]
    /\ pc' = "returned"
    /\ UNCHANGED <<registry, settings, prev, workers, PLUGIN_DIRS, sys_path,
                   url, result, cands, idx, tried, calls, yields, err>>

NextScrape ==
    \/ ScrapeSupported(FALSE, <<>>, FALSE)
    \/ \E html \in Pages, host_only \in BOOLEAN : ScrapeSupported(TRUE, html, host_only)
    \/ NextRequest(FALSE)

SpecScrape == InitBatch /\ [][NextScrape]_vars

(***************************************************************************)
(* Host-only scrapes while resolvers are enabled and disabled.             *)
(***************************************************************************)
\* set_setting('<Resolver>_enabled', value): what _is_enabled() of the
\* resolver class answers from then on.
SetResolverEnabled(k, value) ==
    /\ pc = "idle"
    /\ k \in 1..Len(registry)
    /\ registry' = [registry EXCEPT ![k].enabled = (value = TrueText)]
    /\ UNCHANGED <<settings, host_cache, prev, workers, PLUGIN_DIRS, sys_path,
                   pc, last, chainVars>>

NextToggle ==
    \/ \E html \in Pages : ScrapeSupported(TRUE, html, TRUE)
    \/ \E k \in 1..MaxResolvers, value \in {TrueText, FalseText} : SetResolverEnabled(k, value)
    \/ NextRequest(FALSE)

SpecToggle == InitBatch /\ [][NextToggle]_vars

(***************************************************************************)
(* scrape_supported in several request threads at once.  A thread can be   *)
(* suspended between any two of its accesses to host_cache: the test       *)
(* "host in host_cache", the evaluation of valid_url and the assignment    *)
(* "host_cache[host] = is_valid" are separate steps.                       *)
(***************************************************************************)
\* The pages the threads scrape: links of one host and a link without host.
WorkerLinks == {UrlExample, LinkExampleAbout, LinkRelative}

WorkerPages == { Page(ls) : ls \in SeqsUpTo(WorkerLinks, MaxWorkerLinks) }

otherVars == <<registry, settings, PLUGIN_DIRS, sys_path, pc, last, prev, chainVars>>

\* The link thread w is at, and its host.
WorkerLink(w) == workers[w].found[workers[w].k]
WorkerHost(w) == LinkHost[WorkerLink(w)]

\* A request thread enters scrape_supported(html, host_only=host_only).
WorkerBegin(w, html, host_only) ==
    /\ pc = "idle"
    /\ workers[w].pc = "idle"
    /\ workers' = [workers EXCEPT ![w] =
                      [IdleWorker EXCEPT !.pc = "match", !.found = Extracted[html],
                                         !.k = 1, !.host_only = host_only]]
    /\ UNCHANGED <<host_cache, otherVars>>

\* The next match of finditer, up to the validation: the loop ends, the link
\* is skipped, it is answered from the cache, or a HostedMediaFile is built.
WorkerMatch(w) ==
    /\ workers[w].pc = "match"
    /\ IF workers[w].k > Len(workers[w].found)
       THEN workers' = [workers EXCEPT ![w].pc = "done"]
       ELSE IF workers[w].host_only /\ WorkerHost(w) = None
       THEN workers' = [workers EXCEPT ![w].k = @ + 1]
       ELSE IF workers[w].host_only /\ WorkerHost(w) \in DOMAIN host_cache
       THEN workers' = [workers EXCEPT
                            ![w].links = IF host_cache[WorkerHost(w)]
                                         THEN Append(@, WorkerLink(w)) ELSE @,
                            ![w].k = @ + 1]
       ELSE workers' = [workers EXCEPT ![w].pc = "validate"]
    /\ UNCHANGED <<host_cache, otherVars>>

\* is_valid = hmf.valid_url()
WorkerValidate(w) ==
    /\ workers[w].pc = "validate"
    /\ \E is_valid \in { IF workers[w].host_only THEN HostValid(registry, WorkerHost(w))
                         ELSE UrlValid(registry, WorkerLink(w)) } :
          workers' = [workers EXCEPT ![w].is_valid = is_valid,
                                     ![w].validated = Append(@, WorkerHost(w)),
                                     ![w].pc = "write"]
    /\ UNCHANGED <<host_cache, otherVars>>

\* host_cache[host] = is_valid, and the link is kept when it is valid.
WorkerWrite(w) ==
    /\ workers[w].pc = "write"
    /\ host_cache' = CachePut(host_cache, WorkerHost(w), workers[w].is_valid)
    /\ workers' = [workers EXCEPT
                      ![w].wrote = @ \cup {<<WorkerHost(w), workers[w].is_valid>>},
                      ![w].links = IF workers[w].is_valid
                                   THEN Append(@, WorkerLink(w)) ELSE @,
                      ![w].k = @ + 1,
                      ![w].pc = "match"]
    /\ UNCHANGED otherVars

NextWorkers ==
    \E w \in Workers :
        \/ \E html \in WorkerPages, host_only \in BOOLEAN : WorkerBegin(w, html, host_only)
        \/ WorkerMatch(w)
        \/ WorkerValidate(w)
        \/ WorkerWrite(w)

SpecWorkers == InitBatch /\ [][NextWorkers]_vars

(***************************************************************************)
(* Properties of relevant_resolvers (checked under SpecRegistry).          *)
(***************************************************************************)
Queried == last.op = "relevant_resolvers"

\* The value a call used for an optional flag, read from the call's own
\* arguments and the settings store.
FlagOn(flag, key) ==
    \/ flag = "True"
    \/ flag = "None" /\ key \in DOMAIN settings /\ settings[key] = TrueText

\* The three policy predicates, for registry entry k and the last call.
PassesPolicy(k) ==
    /\ last.include_disabled \/ registry[k].enabled
    /\ FlagOn(last.include_universal, "allow_universal") \/ ~PluginPool[registry[k].cls].universal
    /\ FlagOn(last.include_popups, "allow_popups") \/ ~PluginPool[registry[k].cls].popup

Returned(k) == \E i \in 1..Len(last.relevant) : last.relevant[i] = k

HasWildcard(k) ==
    \E i \in 1..Len(PluginPool[registry[k].cls].domains) :
        PluginPool[registry[k].cls].domains[i] = Star

\* C1: every resolver relevant_resolvers returns satisfies the three policy
\* predicates: (include_disabled or enabled) and (include_universal or not
\* universal) and (include_popups or not popup).
C1_ReturnedPassPolicy ==
    Queried => \A k \in 1..Len(registry) : Returned(k) => PassesPolicy(k)

\* C1 witness: a call without disabled, universal and popup resolvers that
\* returned a resolver and left out a disabled one and a universal or popup one.
C1_Witness ==
    /\ Queried
    /\ ~last.include_disabled
    /\ last.include_universal = "False"
    /\ last.include_popups = "False"
    /\ Len(last.relevant) >= 1
    /\ \E k \in 1..Len(registry) : ~registry[k].enabled /\ ~Returned(k)
    /\ \E k \in 1..Len(registry) :
          /\ registry[k].enabled
          /\ PluginPool[registry[k].cls].universal \/ PluginPool[registry[k].cls].popup
          /\ ~Returned(k)

\* C2: with a domain given, a resolver that passes the policy filters is
\* returned if and only if the lower-cased query domain contains one of the
\* resolver's domain fragments, or the resolver's domains hold the wildcard.
C2_QueryContainsFragment ==
    (Queried /\ last.domain # None) =>
        \A k \in 1..Len(registry) :
            PassesPolicy(k) =>
                (Returned(k) <=>
                    \/ \E i \in 1..Len(PluginPool[registry[k].cls].domains) :
                          Contains(Lower(last.domain),
                                   Lower(PluginPool[registry[k].cls].domains[i]))
                    \/ HasWildcard(k))

\* C3 as stated: with no domain, only universal or wildcard resolvers are
\* returned, never one scoped to specific domains.
C3_NoDomainOnlyUniversalOrWildcard ==
    (Queried /\ last.domain = None) =>
        \A k \in 1..Len(registry) :
            Returned(k) => (PluginPool[registry[k].cls].universal \/ HasWildcard(k))

\* C3 amended: with no domain the domain rule is skipped, so the resolvers
\* returned are exactly those that pass the three policy predicates,
\* domain-scoped ones included.
C3_NoDomainReturnsAllPassingPolicy ==
    (Queried /\ last.domain = None) =>
        \A k \in 1..Len(registry) : Returned(k) <=> PassesPolicy(k)

\* C3 witness: a call with no domain returned a domain-scoped resolver that
\* is neither universal nor wildcard.
C3_Witness ==
    /\ Queried
    /\ last.domain = None
    /\ \E k \in 1..Len(registry) :
          /\ Returned(k)
          /\ ~PluginPool[registry[k].cls].universal
          /\ ~HasWildcard(k)

\* C4: with order_matters the returned list is in non-decreasing priority
\* order, and resolvers of equal priority are in registration order.
C4_SortedAndStable ==
    (Queried /\ last.order_matters) =>
        \A i, j \in 1..Len(last.relevant) :
            i < j =>
                LET pi == PluginPool[registry[last.relevant[i]].cls].prio
                    pj == PluginPool[registry[last.relevant[j]].cls].prio
                IN  /\ pi <= pj
                    /\ pi = pj => last.relevant[i] < last.relevant[j]

\* C4 witness: an ordered call returned three resolvers, two of them of equal
\* priority, in an order that differs from the registration order.
C4_Witness ==
    /\ Queried
    /\ last.order_matters
    /\ Len(last.relevant) >= 3
    /\ \E i, j \in 1..Len(last.relevant) :
          /\ i < j
          /\ PluginPool[registry[last.relevant[i]].cls].prio
               = PluginPool[registry[last.relevant[j]].cls].prio
    /\ \E i, j \in 1..Len(last.relevant) : i < j /\ last.relevant[i] > last.relevant[j]

(***************************************************************************)
(* Properties of the resolution chain (SpecChain).                         *)
(***************************************************************************)
\* The strategies resolve_url_complete entered, in order.
TierCalls == SelectSeq(calls, LAMBDA c : c # "head")

StrategyOrder == <<"tier1", "tier2", "tier3">>

\* resolve_url_complete returned (it did not raise).
ChainReturned == pc = "done"

\* The request was answered by complete_server's /api/resolve.
CompleteAnswered == pc = "returned" /\ last.op \in {"api_resolve", "head"}

\* C5: resolve_url_complete returns the result of the first strategy, in the
\* order main system, manual search, direct link check, that gave a
\* non-empty result, and returns None only when all three were tried.
C5_FirstNonEmptyTierInOrder ==
    ChainReturned =>
        /\ Len(yields) \in 1..3
        /\ TierCalls = SubSeq(StrategyOrder, 1, Len(yields))
        /\ \A k \in 1..(Len(yields) - 1) : ~Truthy(yields[k])
        /\ result = yields[Len(yields)]
        /\ ~Truthy(result) => (Len(yields) = 3 /\ result = None)

\* C5 witness: the first two strategies gave nothing and the direct link
\* check gave the URL, which is returned.
C5_Witness ==
    /\ ChainReturned
    /\ Len(yields) = 3
    /\ tried # <<>>
    /\ Truthy(result)
    /\ result = url

\* C6: when the main system gives a non-empty result, neither the manual
\* search nor the HEAD request of the direct link check is ever invoked.
C6_Tier1SuccessSkipsOthers ==
    (Len(yields) >= 1 /\ Truthy(yields[1])) =>
        /\ calls = <<"tier1">>
        /\ tried = <<>>
        /\ cands = <<>>

\* C6 witness: a request answered 200 with the result of the main system.
C6_Witness ==
    /\ CompleteAnswered
    /\ status = 200
    /\ Len(yields) = 1
    /\ Truthy(yields[1])
    /\ result = yields[1]

\* C7: within a strategy, a resolver that raises or gives nothing is followed
\* by the next eligible resolver, and the strategy gives up only after every
\* eligible resolver was tried: in the manual search loop, and in
\* find_resolver / resolve_url of the functional server.
C7_NextEligibleResolverTried ==
    /\ (Len(yields) >= 2 /\ yields[2] = None) =>
          \A i \in 1..Len(cands) :
              is_enabled(registry[cands[i]]) => InList(cands[i], tried)
    /\ (pc = "returned" /\ last.op = "functional_resolve" /\ last.has_url
            /\ ~Truthy(result)) =>
          \A n \in last.valid : InList(n, last.invoked)

\* C8: the direct link check returns the URL only if the URL holds a known
\* video extension, the HEAD request succeeded and the response declares a
\* video content type; otherwise it gives nothing. In resolve_url_complete
\* and in DirectLinkResolver.resolve of the functional server.
C8_ProbeNeedsExtensionSuccessAndVideoType ==
    /\ (ChainReturned /\ Len(yields) = 3) =>
          (Truthy(yields[3]) <=>
              /\ yields[3] = url
              /\ HasExtension(url, CompleteExtensions)
              /\ last.op = "head"
              /\ last.head.ok
              /\ last.head.status = 200
              /\ Contains(Lower(last.head.ctype), Video))
    /\ (pc = "returned" /\ last.op = "functional_resolve" /\ last.has_url
            /\ last.probed) =>
          (Truthy(result) <=>
              /\ result = url
              /\ HasExtension(url, video_extensions)
              /\ last.head.ok
              /\ last.head.status = 200
              /\ Contains(Lower(last.head.ctype), Video))

\* C9: resolve_url_complete never raises, whatever the input value.
C9_NeverRaises == pc # "raised"

\* C10: a resolution in which a resolver or the registry failed with an
\* internal error is never answered like one in which every strategy ran
\* normally and found nothing (404 "Could not resolve URL"); for /api/resolve
\* of complete_server and of web_server.
C10_InternalErrorDistinct ==
    (pc = "returned" /\ last.op \in {"api_resolve", "head", "web_resolve"} /\ err) =>
        status # 404

(***************************************************************************)
(* Properties of the request handlers (SpecBatch).                         *)
(***************************************************************************)
Answered == pc = "returned"

BatchAnswered == Answered /\ last.op = "resolve_multiple"

\* C11: a request without the url field, without the urls field or with a
\* urls value that is not a list is answered 400 and no resolver is invoked;
\* no other request is answered 400, so the answer differs from 404 and 500.
C11_MissingFieldRejected ==
    /\ BatchAnswered =>
          /\ (last.body.kind # "list") <=> (status = 400)
          /\ (last.body.kind # "list") =>
                (last.invoked = 0 /\ "results" \notin DOMAIN last)
    /\ (Answered /\ last.op = "web_resolve") =>
          /\ (~last.has_url) <=> (status = 400)
          /\ (~last.has_url) => (url = None /\ result = None /\ ~err)

\* C11 witness: a batch request whose urls value is not a list, answered 400.
C11_Witness ==
    /\ BatchAnswered
    /\ last.body.kind = "not_list"
    /\ status = 400
    /\ last.invoked = 0

\* C12: the batch answer holds exactly one entry per input URL, in input
\* order, each with the success flag of that URL's own resolution; a URL
\* that fails or raises gives an unsuccessful entry and leaves the other
\* entries as they are.
C12_OneEntryPerUrl ==
    (BatchAnswered /\ last.body.kind = "list") =>
        /\ status = 200
        /\ Len(last.results) = Len(last.body.urls)
        /\ last.total = Len(last.body.urls)
        /\ \A i \in 1..Len(last.body.urls) :
              LET alone == ResolveOne(last.server, last.body.urls[i], last.runs[i])
              IN  /\ last.results[i].original_url = last.body.urls[i]
                  /\ last.results[i].success = (~alone.raised /\ Truthy(alone.result))
                  /\ last.results[i].success => last.results[i].resolved_url = alone.result

\* C12 witness: two URLs, the first resolved, the second raising.
C12_Witness ==
    /\ BatchAnswered
    /\ last.body.kind = "list"
    /\ Len(last.results) = 2
    /\ last.results[1].success
    /\ ~last.results[2].success
    /\ last.results[2].error

(***************************************************************************)
(* Properties of scrape_supported (checked under SpecScrape).              *)
(***************************************************************************)
ScrapeAnswered == pc = "returned" /\ last.op = "scrape_supported" /\ last.has_html

\* A step that is a scrape_supported call on a page.
ScrapeStep == pc = "idle" /\ pc' = "returned" /\ last'.op = "scrape_supported" /\ last'.has_html

\* Whether a link of the answered call passed validation: in host-only mode
\* the judgment of its host, otherwise the judgment of the whole URL.
Passed(l) ==
    IF last.host_only
    THEN /\ LinkHost[l] # None
         /\ LinkHost[l] \in DOMAIN host_cache
         /\ host_cache[LinkHost[l]]
    ELSE UrlValid(registry, l)

\* C13: a step never removes a host from the cache and never changes the
\* boolean the cache holds for a host.
C13_CacheEntryNeverOverwritten ==
    [][\A h \in DOMAIN host_cache :
          h \in DOMAIN host_cache' /\ host_cache'[h] = host_cache[h]]_vars

\* C14: a scrape_supported call with host_only false leaves the cache as it
\* was.
C14_FullValidationLeavesCache ==
    [][(ScrapeStep /\ ~last'.host_only) => host_cache' = host_cache]_vars

C15_WitnessRepeat ==
    /\ ScrapeAnswered
    /\ Extracted[last.html] = <<UrlExample, LinkOtherV, UrlExample>>
    /\ last.supported_urls = <<UrlExample, UrlExample>>

\* C16: for both values of host_only a link without a hostname is neither
\* validated, nor returned, nor written to the cache.
C16_HostlessLinkSkipped ==
    /\ None \notin DOMAIN host_cache
    /\ ScrapeAnswered =>
          /\ ~InList(None, last.validated)
          /\ \A i \in 1..Len(last.supported_urls) :
                LinkHost[last.supported_urls[i]] # None

(***************************************************************************)
(* Properties of relevant_resolvers as a query (SpecRegistry, SpecRequery) *)
(***************************************************************************)
\* A step that is a call of relevant_resolvers.
QueryStep == pc = "idle" /\ pc' = "returned" /\ last'.op = "relevant_resolvers"

\* C17: a call of relevant_resolvers, whatever its arguments, leaves the
\* registered resolvers with all their fields, the settings and the plugin
\* search path as they were.
C17_QueryLeavesStateUnchanged ==
    [][QueryStep => /\ registry' = registry
                    /\ settings' = settings
                    /\ sys_path' = sys_path
                    /\ PLUGIN_DIRS' = PLUGIN_DIRS]_vars

\* No registered resolver has the wildcard, a domain that holds the query
\* or a domain the query holds.
NoResolverFor(domain) ==
    \A k \in 1..Len(registry) :
        /\ ~InList(Star, domains(registry[k]))
        /\ \A i \in 1..Len(domains(registry[k])) :
              /\ ~Contains(Lower(domains(registry[k])[i]), Lower(domain))
              /\ ~Contains(Lower(domain), Lower(domains(registry[k])[i]))

TwoQueries == pc = "returned" /\ Queried /\ prev.op = "relevant_resolvers"

\* The flag a call works with: the one it was given, or the setting's value
\* at the time of the call.
FlagAtCall(flag, call, key) ==
    IF flag # "None" THEN flag
    ELSE IF call.settings[key] = TrueText THEN "True" ELSE "False"

\* A setting differs between the two calls and the second call leaves the
\* flag of that setting unspecified.
PolicyChanged ==
    \/ /\ last.include_universal = "None"
       /\ prev.settings["allow_universal"] # last.settings["allow_universal"]
    \/ /\ last.include_popups = "None"
       /\ prev.settings["allow_popups"] # last.settings["allow_popups"]

\* C19: when a policy setting was changed between two calls that leave its
\* flag unspecified, the second call answers as a call that is given the
\* new values of the settings as its flags.
C19_PolicyReadFresh ==
    (TwoQueries /\ PolicyChanged) =>
        last.relevant =
            relevant_resolvers(registry, last.domain,
                FlagAtCall(last.include_universal, last, "allow_universal"),
                FlagAtCall(last.include_popups, last, "allow_popups"),
                last.include_disabled, last.order_matters)

\* C19 witness: allow_universal was true at the first call and false at the
\* second; the first answer holds a universal resolver, the second none.
C19_Witness ==
    /\ TwoQueries
    /\ prev.include_universal = "None"
    /\ last.include_universal = "None"
    /\ prev.domain = last.domain
    /\ prev.settings["allow_universal"] = TrueText
    /\ last.settings["allow_universal"] = FalseText
    /\ \E i \in 1..Len(prev.relevant) : isUniversal(registry[prev.relevant[i]])
    /\ \A i \in 1..Len(last.relevant) : ~isUniversal(registry[last.relevant[i]])
    /\ last.relevant # <<>>

\* The two calls have the same arguments.
SameArguments ==
    /\ prev.domain = last.domain
    /\ prev.include_universal = last.include_universal
    /\ prev.include_popups = last.include_popups
    /\ prev.include_external = last.include_external
    /\ prev.include_disabled = last.include_disabled
    /\ prev.order_matters = last.order_matters

\* C20: two calls with the same arguments and the same settings return the
\* same resolvers in the same order.
C20_SameCallSameAnswer ==
    (TwoQueries /\ SameArguments /\ prev.settings = last.settings)
        => last.relevant = prev.relevant

\* C20 witness: two equal calls that both return several resolvers.
C20_Witness ==
    /\ TwoQueries
    /\ SameArguments
    /\ prev.settings = last.settings
    /\ Len(last.relevant) >= 2
    /\ last.relevant = prev.relevant

(***************************************************************************)
(* Removal of a resolver (checked under SpecRegistry).                     *)
(***************************************************************************)
\* The registry without its entry j.
WithoutResolver(reg, j) ==
    [i \in 1..(Len(reg) - 1) |-> IF i < j THEN reg[i] ELSE reg[i + 1]]

\* The answer of the last call on the registry without entry j, with the
\* resolvers named by their index in the whole registry.
AnswerWithout(j) ==
    LET answer == relevant_resolvers(WithoutResolver(registry, j), last.domain,
                                     last.include_universal, last.include_popups,
                                     last.include_disabled, last.order_matters)
    IN  [i \in 1..Len(answer) |-> IF answer[i] < j THEN answer[i] ELSE answer[i] + 1]

\* C21: for an ordered query, the answer on the registry without one
\* resolver is the answer on the whole registry with that resolver left
\* out: the others keep their relative order.
C21_RemovalKeepsOrder ==
    (pc = "returned" /\ Queried /\ last.order_matters) =>
        \A j \in 1..Len(registry) :
            AnswerWithout(j) = SelectSeq(last.relevant, LAMBDA k : k # j)

\* C21 witness: an ordered answer of three resolvers, two of equal priority,
\* not in registration order, from which each resolver can be removed.
C21_Witness ==
    /\ pc = "returned"
    /\ Queried
    /\ last.order_matters
    /\ Len(last.relevant) = 3
    /\ \E i, j \in 1..3 :
          /\ i < j
          /\ get_priority(registry[last.relevant[i]]) = get_priority(registry[last.relevant[j]])
    /\ \E i, j \in 1..3 : i < j /\ last.relevant[i] > last.relevant[j]
    /\ \A j \in 1..3 : Len(AnswerWithout(j)) = 2

(***************************************************************************)
(* The empty string as domain (checked under SpecRegistry).                *)
(***************************************************************************)
\* C30: a query with the empty string as domain returns only resolvers
\* whose domains hold the wildcard.
C30_EmptyDomainOnlyWildcards ==
    (pc = "returned" /\ Queried /\ last.domain = <<>>) =>
        \A i \in 1..Len(last.relevant) : HasWildcard(last.relevant[i])

\* C30 witness: the registry holds an enabled resolver of example.com and a
\* wildcard resolver; the query with the empty string returns the wildcard
\* resolver and not the resolver of example.com.
C30_Witness ==
    /\ pc = "returned"
    /\ Queried
    /\ last.domain = <<>>
    /\ last.relevant # <<>>
    /\ \E k \in 1..Len(registry) :
          /\ name(registry[k]) = "ExampleCom"
          /\ is_enabled(registry[k])
          /\ ~Returned(k)

(***************************************************************************)
(* Properties of concurrent scrape_supported calls (SpecWorkers).          *)
(***************************************************************************)
\* Every thread that runs or ran a call runs it with host_only true.
AllHostOnly == \A w \in Workers : workers[w].pc = "idle" \/ workers[w].host_only

\* How often the threads evaluated the validation of host h.
Validations(h) ==
    Cardinality({ <<w, i>> \in Workers \X (1..MaxWorkerLinks) :
                    i <= Len(workers[w].validated) /\ workers[w].validated[i] = h })

\* C22: over host-only calls the validation of a host is evaluated at most
\* once.
C22_HostValidatedAtMostOnce ==
    AllHostOnly => \A l \in WorkerLinks : Validations(LinkHost[l]) <= 1

\* C23: all writes of the cache entry of one host carry the same value.
C23_WritesOfAHostAgree ==
    \A v, w \in Workers : \A a \in workers[v].wrote, b \in workers[w].wrote :
        a[1] = b[1] => a[2] = b[2]

(***************************************************************************)
(* The cache against the registry of the moment (SpecToggle).              *)
(***************************************************************************)
\* C27: a host-only scrape keeps a link with a host exactly when a
\* validation of that host against the registry, as it is at the time of
\* the call, accepts the host.
C27_HostOnlyAnswerIsCurrent ==
    (ScrapeAnswered /\ last.host_only) =>
        \A i \in 1..Len(Extracted[last.html]) :
            LET l == Extracted[last.html][i]
            IN  LinkHost[l] # None =>
                    (InList(l, last.supported_urls) <=> HostValid(registry, LinkHost[l]))

(***************************************************************************)
(* The settings store (checked under SpecSettings).                        *)
(***************************************************************************)
\* What Python's str gives for the values a client stores.
TextForm(v) ==
    CASE v = PyTrue -> <<"T", "r", "u", "e">>
      [] v = PyFalse -> <<"F", "a", "l", "s", "e">>
      [] v = None -> <<"N", "o", "n", "e">>
      [] OTHER -> v

\* The call that is answered left the flag unspecified and the setting does
\* not hold the text 'true'.
FlagOff(flag, key) == flag = "None" /\ last.settings[key] # TrueText

\* C28: after set_setting(k, v), get_setting(k) is the text form of v; a key
\* that was never set gives the empty string; and a query that leaves a flag
\* unspecified while the setting's text is not exactly 'true' returns no
\* universal (no popup) resolver.
C28_SettingsHoldText ==
    /\ (pc = "idle" /\ last.op = "set_setting") => get_setting(last.key) = TextForm(last.value)
    /\ \A key \in SettingKeys : key \notin DOMAIN settings => get_setting(key) = <<>>
    /\ (pc = "returned" /\ Queried) =>
          \A i \in 1..Len(last.relevant) :
              /\ FlagOff(last.include_universal, "allow_universal")
                    => ~isUniversal(registry[last.relevant[i]])
              /\ FlagOff(last.include_popups, "allow_popups")
                    => ~isPopup(registry[last.relevant[i]])

\* C28 witness: the boolean True was stored for allow_universal, the store
\* holds 'True', and a query without a domain and without the flag returns
\* resolvers but not the universal resolver of the registry.
C28_Witness ==
    /\ pc = "returned"
    /\ Queried
    /\ last.domain = None
    /\ last.include_universal = "None"
    /\ settings["allow_universal"] = <<"T", "r", "u", "e">>
    /\ "ExampleCom_login" \notin DOMAIN settings
    /\ \E k \in 1..Len(registry) : isUniversal(registry[k]) /\ ~Returned(k)
    /\ last.relevant # <<>>

(***************************************************************************)
(* The flags of resolve (checked under SpecResolve).                       *)
(***************************************************************************)
\* Two calls of resolve in a row for the same page in the same condition,
\* both with subs true.
TwoSubsResolves ==
    /\ pc = "returned"
    /\ last.op = "resolve"
    /\ prev.op = "resolve"
    /\ last.web_url = prev.web_url
    /\ last.outcome = prev.outcome
    /\ last.subs
    /\ prev.subs

C24_ManualTriedInPriorityOrder ==
    \A i, j \in 1..Len(tried) :
        i < j => get_priority(registry[tried[i]]) <= get_priority(registry[tried[j]])

\* C25: every resolver the manual search invoked is enabled.
C25_DisabledNeverInvoked ==
    \A i \in 1..Len(tried) : registry[tried[i]].enabled

\* C25 witness: the registry query raised, the candidates come from the
\* list of all resolvers, a disabled candidate was passed over and an
\* enabled one after it was invoked.
C25_Witness ==
    /\ pc = "manual_loop"
    /\ err
    /\ tried # <<>>
    /\ \E n \in 1..Len(cands) :
          /\ n < idx
          /\ ~registry[cands[n]].enabled
          /\ \E m \in (n + 1)..Len(cands) : m < idx /\ InList(cands[m], tried)

(***************************************************************************)
(* The end of resolve_url_complete (checked under SpecChainFair).          *)
(***************************************************************************)
\* No element occurs twice in the sequence.
NoRepeats(seq) == \A i, j \in 1..Len(seq) : i # j => seq[i] # seq[j]

\* C26: a call of resolve_url_complete that started returns, with a
\* resolved URL or with the unresolved outcome, and on its way it enters a
\* strategy at most once, in the order of the strategies, and invokes a
\* candidate at most once.
C26_ChainReturns ==
    /\ (pc = "tier1") ~> ChainReturned
    /\ [](NoRepeats(TierCalls) /\ NoRepeats(tried))
    /\ [](TierCalls = SubSeq(StrategyOrder, 1, Len(TierCalls)))

====
